---- MODULE Spec2Model ----
\* Scoped-role authorization model of the NDC UK backend database:
\* the tables of complete_database_setup.sql with their constraints, the
\* functions validate_role_assignment and can_assign_role, the row level
\* security policies, and the registration trigger of fix_trigger.sql.
EXTENDS Integers, FiniteSets, Sequences, TLC

\* ---------------------------------------------------------------- bounds
NumUsers == 2
MaxAssignments == 2
MaxTime == 1
MaxRenames == 1
MaxBranches == 4
MaxDeletedRoles == 1
MaxCategoryChanges == 1

\* SQL NULL for uuid and timestamp columns (ids and dates are naturals).
NULL == -1

Users == 1..NumUsers

\* The table owner, whom row level security does not restrict (it is enabled,
\* not forced); not a row of auth.users.
Owner == 0
Times == 0..MaxTime

\* ------------------------------------------------------------- seed data
\* The seeded chapter 'NDC UK & Ireland'.
ChapterIds == {1}

\* Two of the seeded branches: 1 = 'London Central', 2 = 'Manchester'.
BranchIds == {1, 2}

SeedBranches ==
  (1 :> [chapter_id |-> 1, name |-> "London Central", status |-> "active"]) @@
  (2 :> [chapter_id |-> 1, name |-> "Manchester", status |-> "active"])

\* Seeded roles the rules name, one committee role and the 'both' role.
\* A role name is the sequence of its words.
SeedRoles ==
  (1 :> [name |-> <<"Chairman">>, scope_type |-> "chapter",
         category_id |-> "Chapter Executives", is_active |-> TRUE]) @@
  (2 :> [name |-> <<"Secretary">>, scope_type |-> "chapter",
         category_id |-> "Chapter Executives", is_active |-> TRUE]) @@
  (3 :> [name |-> <<"Branch", "Chairman">>, scope_type |-> "branch",
         category_id |-> "Branch Executives", is_active |-> TRUE]) @@
  (4 :> [name |-> <<"Branch", "Secretary">>, scope_type |-> "branch",
         category_id |-> "Branch Executives", is_active |-> TRUE]) @@
  (5 :> [name |-> <<"Finance", "Committee", "Chair">>, scope_type |-> "chapter",
         category_id |-> "Committees", is_active |-> TRUE]) @@
  (6 :> [name |-> <<"Electoral", "Commissioner">>, scope_type |-> "both",
         category_id |-> "Special Roles", is_active |-> TRUE])

SeedRoleCategories ==
  {"Chapter Executives", "Branch Executives", "Committees", "Special Roles"}

\* SQL NULL in roles.category_id (categories are named by strings here).
NoCategory == ""

\* The resource areas named by the permissions of the seeded roles.
RolePermissions ==
  (1 :> {"all"}) @@
  (2 :> {"chapter", "committees", "members", "meetings"}) @@
  (3 :> {"branch", "members", "events"}) @@
  (4 :> {"branch", "members", "meetings"}) @@
  (5 :> {"finance", "committees", "reports"}) @@
  (6 :> {"elections", "voting", "candidates", "electoral_roles"})

\* Values given to AuthGuard's requiredPermission.
PermissionNames == {"members", "finance"}

\* Two of the names in branch_names of the branch update script, in order.
branch_names == <<"Leicester Branch", "Leeds Branch">>

\* Names given to a new branch: one a seeded branch has, one of the script's.
NewBranchNames == {"Manchester", "Leeds Branch"}

\* Names a role may be renamed to: the name of the super-authority role, a
\* name with the word the committee rule looks for, and a neutral one.
NewRoleNames == {<<"Chairman">>, <<"Steering", "Committee">>, <<"Convener">>}

\* ----------------------------------------------------------------- state
VARIABLES
  now,            \* the database clock, now()
  authUsers,      \* ids of the rows of auth.users
  profiles,       \* rows of user_profiles
  pendingReg,     \* registrations whose transaction has not committed yet
  memberships,    \* rows of memberships
  assignments,    \* rows of executive_assignments
  roles,          \* rows of roles, by id
  branches,       \* rows of branches, by id
  chapters,       \* ids of the rows of chapters
  revoked,        \* ids of the assignments revoke has ended (history)
  op,             \* the last operation called
  result,         \* outcome reported by the last operation
  access_token,   \* localStorage 'access_token': the user it was issued to
  refresh_token,  \* localStorage 'refresh_token'
  user,           \* AuthProvider state: the signed-in user or null
  isLoading,      \* AuthProvider state
  checkPc,        \* checkAuthStatus: "init", "await" (getCurrentUser), "done"
  checkToken,     \* the token checkAuthStatus sent with getCurrentUser
  loginPc,        \* login: the user whose getCurrentUser is awaited, or null
  logoutPc,       \* logout: "idle", "await" (authApi.logout), "done"
  refreshPc,      \* refreshToken: "idle", "await" (authApi.refreshToken),
                  \* "logout" (logout() awaited in catch), "done", "failed"
  refreshSent,    \* the refresh token refreshToken sent, or null
  requiredPermission, \* AuthGuard prop, "" when not given
  fallback,       \* AuthGuard prop: a fallback node was given
  rendered,       \* what AuthGuard returned at its last render
  redirected,     \* router.push('/login') was called and not yet followed
  route           \* the page shown: "guarded" holds the AuthGuard

dbVars == <<now, authUsers, profiles, pendingReg, memberships, assignments, roles, branches,
            chapters, revoked, op, result>>

clientVars == <<access_token, refresh_token, user, isLoading, checkPc, checkToken, loginPc,
                logoutPc, refreshPc, refreshSent,
                requiredPermission, fallback, rendered, redirected, route>>

vars == <<dbVars, clientVars>>

\* --------------------------------------------------------- SQL primitives
\* a = b in SQL: not true when either side is NULL.
SqlEq(a, b) == a # NULL /\ b # NULL /\ a = b

\* name LIKE '%Committee%' on a name given as its words.
LikeCommittee(name) == \E i \in 1..Len(name) : name[i] = "Committee"

\* CONSTRAINT valid_scope of executive_assignments.
valid_scope(chapter_id, branch_id) ==
  \/ (chapter_id # NULL /\ branch_id = NULL)
  \/ (chapter_id = NULL /\ branch_id # NULL)
  \/ (chapter_id # NULL /\ branch_id # NULL)

\* UNIQUE(user_id, branch_id) of memberships: may a row for the pair be added.
MembershipsUniqueNoCheck(user_id, branch_id) == TRUE

MembershipsUnique(user_id, branch_id) ==
  ~ \E m \in memberships : m.user_id = user_id /\ m.branch_id = branch_id

\* Foreign keys of a memberships row.
MembershipsForeignKeys(user_id, branch_id) ==
  user_id \in authUsers /\ branch_id \in DOMAIN branches

\* Foreign keys of an executive_assignments row.
AssignmentsForeignKeys(user_id, role_id, chapter_id, branch_id) ==
  /\ user_id \in authUsers
  /\ role_id \in DOMAIN roles
  /\ chapter_id \in chapters \cup {NULL}
  /\ branch_id \in DOMAIN branches \cup {NULL}

\* id DEFAULT gen_random_uuid() of executive_assignments: a fresh id, here
\* the least one not in use.
FreshId(rows) ==
  CHOOSE i \in 1..(Cardinality(rows) + 1) :
    /\ \A r \in rows : r.id # i
    /\ \A j \in 1..(i - 1) : \E r \in rows : r.id = j

\* ---------------------------------------------- database functions
\* A validation that asks only what CONSTRAINT valid_scope asks.
validate_role_assignmentAnyScope(p_user_id, p_role_id, p_chapter_id, p_branch_id) ==
  p_role_id \in DOMAIN roles /\ valid_scope(p_chapter_id, p_branch_id)

\* validate_role_assignment(p_user_id, p_role_id, p_chapter_id, p_branch_id)
validate_role_assignment(p_user_id, p_role_id, p_chapter_id, p_branch_id) ==
  IF ~ (p_role_id \in DOMAIN roles
        /\ roles[p_role_id].category_id \in SeedRoleCategories)
  THEN FALSE
  ELSE CASE roles[p_role_id].scope_type = "chapter" -> p_chapter_id # NULL
         [] roles[p_role_id].scope_type = "branch" -> p_branch_id # NULL
         [] roles[p_role_id].scope_type = "both" ->
              (p_chapter_id # NULL \/ p_branch_id # NULL)

\* The rows an authorization check reads for a user: the user's
\* executive_assignments with is_active = true, joined with their role.
AssignerRolesIgnoringActive(uid) ==
  {ea \in assignments : ea.user_id = uid /\ ea.role_id \in DOMAIN roles}

AssignerRoles(uid) ==
  {ea \in assignments :
     ea.user_id = uid /\ ea.is_active /\ ea.role_id \in DOMAIN roles}

\* One pass of the loop body of can_assign_role for the assigner's row ea.
AssignRule(ea, role_id, target_branch_id) ==
  \/ roles[ea.role_id].name = <<"Chairman">>
  \/ /\ roles[ea.role_id].name = <<"Secretary">>
     /\ role_id \in DOMAIN roles
     /\ LikeCommittee(roles[role_id].name)
  \/ /\ roles[ea.role_id].name = <<"Branch", "Chairman">>
     /\ role_id \in DOMAIN roles
     /\ roles[role_id].scope_type \in {"branch", "both"}
     /\ SqlEq(ea.branch_id, target_branch_id)

\* The orders in which a SELECT without ORDER BY may return the rows.
Orders(rows) ==
  {seq \in [1..Cardinality(rows) -> rows] :
     \A i, j \in 1..Cardinality(rows) : i # j => seq[i] # seq[j]}

\* The FOR loop of can_assign_role over the rows in the order seq, from
\* position i on: RETURN true at the first row a rule matches, and RETURN
\* false after the loop.
RECURSIVE ScanAssignerRoles(_, _, _, _, _)
ScanAssignerRoles(seq, n, i, role_id, target_branch_id) ==
  IF i > n
  THEN FALSE
  ELSE IF AssignRule(seq[i], role_id, target_branch_id)
  THEN TRUE
  ELSE ScanAssignerRoles(seq, n, i + 1, role_id, target_branch_id)

\* A check that looks at one row of the assigner only.
can_assign_roleOneRow(assigner_user_id, target_user_id, role_id, target_chapter_id, target_branch_id) ==
  /\ AssignerRoles(assigner_user_id) # {}
  /\ AssignRule(CHOOSE ea \in AssignerRoles(assigner_user_id) :
                  \A other \in AssignerRoles(assigner_user_id) : ea.id <= other.id,
                role_id, target_branch_id)

\* can_assign_role(assigner_user_id, target_user_id, role_id,
\*                 target_chapter_id, target_branch_id)
can_assign_role(assigner_user_id, target_user_id, role_id, target_chapter_id, target_branch_id) ==
  \E ea \in AssignerRoles(assigner_user_id) :
    AssignRule(ea, role_id, target_branch_id)

\* UNIQUE(chapter_id, name) of branches: may a row for the pair be added
\* to the rows brs.
BranchesUnique(brs, chapter_id, name) ==
  ~ \E b \in DOMAIN brs : brs[b].chapter_id = chapter_id /\ brs[b].name = name

\* id DEFAULT gen_random_uuid() of branches: the least id not in use.
FreshBranchId(brs) ==
  CHOOSE i \in 1..(Cardinality(DOMAIN brs) + 1) :
    i \notin DOMAIN brs /\ \A j \in 1..(i - 1) : j \in DOMAIN brs

\* INSERT INTO branches (...) VALUES (chapter_uuid, branch_name, ...,
\* 'active') ON CONFLICT (chapter_id, name) DO UPDATE SET status = 'active'
UpsertBranch(brs, chapter_id, name) ==
  IF BranchesUnique(brs, chapter_id, name)
  THEN brs @@ (FreshBranchId(brs) :>
                 [chapter_id |-> chapter_id, name |-> name, status |-> "active"])
  ELSE [b \in DOMAIN brs |->
          IF brs[b].chapter_id = chapter_id /\ brs[b].name = name
          THEN [brs[b] EXCEPT !.status = "active"]
          ELSE brs[b]]

\* The FOREACH loop of the script over the names from position i on.
RECURSIVE UpsertLoop(_, _, _)
UpsertLoop(brs, chapter_id, i) ==
  IF i > Len(branch_names)
  THEN brs
  ELSE UpsertLoop(UpsertBranch(brs, chapter_id, branch_names[i]), chapter_id, i + 1)

\* ------------------------------------------- row level security policies
\* uid is auth.uid(); row is the row the policy is evaluated on.

\* "Users can update own profile" (the only write policy of user_profiles)
ProfilesUpdatePolicy(uid, row) == uid = row.id

\* "Branch executives can manage branch memberships"
BranchExecMembershipsPolicyNoChairman(uid, row) ==
  \E ea \in AssignerRoles(uid) :
    /\ SqlEq(ea.branch_id, row.branch_id)
    /\ roles[ea.role_id].name \in {<<"Branch", "Secretary">>}

BranchExecMembershipsPolicy(uid, row) ==
  \E ea \in AssignerRoles(uid) :
    /\ SqlEq(ea.branch_id, row.branch_id)
    /\ roles[ea.role_id].name \in {<<"Branch", "Chairman">>, <<"Branch", "Secretary">>}

\* "Chapter leaders can manage all memberships"
ChapterLeaderAnyUser(uid) ==
  \E u \in Users : \E ea \in AssignerRoles(u) :
    roles[ea.role_id].name \in {<<"Chairman">>, <<"Secretary">>}

ChapterLeader(uid) ==
  \E ea \in AssignerRoles(uid) :
    roles[ea.role_id].name \in {<<"Chairman">>, <<"Secretary">>}

\* The permissive policies of memberships for a write, OR-ed.
MembershipsWritePolicy(uid, row) ==
  BranchExecMembershipsPolicy(uid, row) \/ ChapterLeader(uid)

\* "Chapter Chairman can manage all assignments"
ChapterChairman(uid) ==
  \E ea \in AssignerRoles(uid) : roles[ea.role_id].name = <<"Chairman">>

\* "Chapter Secretary can manage committee assignments"
SecretaryAssignmentsPolicy(uid, row) ==
  \E ea \in AssignerRoles(uid) :
    /\ roles[ea.role_id].name = <<"Secretary">>
    /\ row.role_id \in DOMAIN roles
    /\ LikeCommittee(roles[row.role_id].name)

\* "Branch Chairman can manage branch assignments"
BranchChairmanAssignmentsPolicy(uid, row) ==
  \E ea \in AssignerRoles(uid) :
    /\ roles[ea.role_id].name = <<"Branch", "Chairman">>
    /\ SqlEq(ea.branch_id, row.branch_id)

\* The permissive policies of executive_assignments for a write, OR-ed.
AssignmentsWritePolicy(uid, row) ==
  \/ ChapterChairman(uid)
  \/ SecretaryAssignmentsPolicy(uid, row)
  \/ BranchChairmanAssignmentsPolicy(uid, row)

\* "Branch executives can update own branch" (FOR UPDATE)
OwnBranchUpdatePolicy(uid, branch_id) ==
  \E ea \in AssignerRoles(uid) :
    /\ SqlEq(ea.branch_id, branch_id)
    /\ roles[ea.role_id].scope_type \in {"branch", "both"}

\* The permissive policies of branches: "Chapter leaders can manage
\* branches" (FOR ALL) and, for an update, the own-branch policy.
BranchesUpdatePolicy(uid, branch_id) ==
  ChapterLeader(uid) \/ OwnBranchUpdatePolicy(uid, branch_id)

BranchesInsertDeletePolicy(uid) == ChapterLeader(uid)

\* "Chapter Chairman can manage chapters"
ChaptersWritePolicy(uid) == ChapterChairman(uid)

\* "Chapter leaders can manage roles" / "... role categories"
RolesWritePolicy(uid) == ChapterLeader(uid)

RoleCategoriesWritePolicy(uid) == ChapterLeader(uid)

\* ------------------------------------------------------------------ rows
\* id DEFAULT gen_random_uuid() of memberships: a fresh id, here the pair
\* with the number of rows the pair already has.
FreshMembershipId(user_id, branch_id) ==
  <<user_id, branch_id,
    Cardinality({m \in memberships :
                   m.user_id = user_id /\ m.branch_id = branch_id})>>

\* A memberships row with the column defaults.
NewMembership(user_id, branch_id) ==
  [id |-> FreshMembershipId(user_id, branch_id), user_id |-> user_id, branch_id |-> branch_id,
   status |-> "pending", approved_by |-> NULL, approved_at |-> NULL,
   card_issued |-> FALSE, card_issued_at |-> NULL]

\* An executive_assignments row; is_active defaults to true.
NewAssignment(user_id, role_id, chapter_id, branch_id, start_date, end_date) ==
  [id |-> FreshId(assignments), user_id |-> user_id, role_id |-> role_id,
   chapter_id |-> chapter_id, branch_id |-> branch_id,
   start_date |-> start_date, end_date |-> end_date, is_active |-> TRUE]

\* generate_membership_number(): COUNT(*) + 1 over the numbered profiles.
generate_membership_number ==
  Cardinality({p \in profiles : p.membership_number # NULL}) + 1

\* ----------------------------------------------------------------- Init
\* The browser before AuthProvider's effect has run: nothing stored, the
\* guard without props showing the loading state of its first render.
ClientInit ==
  /\ access_token = NULL
  /\ refresh_token = NULL
  /\ user = NULL
  /\ isLoading = TRUE
  /\ checkPc = "init"
  /\ checkToken = NULL
  /\ loginPc = NULL
  /\ logoutPc = "idle"
  /\ refreshPc = "idle"
  /\ refreshSent = NULL
  /\ requiredPermission = ""
  /\ fallback = FALSE
  /\ rendered = "spinner"
  /\ redirected = FALSE
  /\ route = "guarded"

Init ==
  /\ now = 0
  /\ authUsers = {}
  /\ profiles = {}
  /\ pendingReg = {}
  /\ memberships = {}
  /\ assignments = {}
  /\ roles = SeedRoles
  /\ branches = SeedBranches
  /\ chapters = ChapterIds
  /\ revoked = {}
  /\ op = "none"
  /\ result = "none"
  /\ ClientInit

\* Every user has signed up without naming a branch, in the order of their
\* ids: the state after Register(1, NULL), ..., Register(NumUsers, NULL).
InitRegistered ==
  /\ now = 0
  /\ authUsers = Users
  /\ profiles = {[id |-> u, membership_number |-> u] : u \in Users}
  /\ pendingReg = {}
  /\ memberships = {}
  /\ assignments = {}
  /\ roles = SeedRoles
  /\ branches = SeedBranches
  /\ chapters = ChapterIds
  /\ revoked = {}
  /\ op = "register"
  /\ result = "ok"
  /\ ClientInit

\* --------------------------------------------------------------- actions
\* Time passes.
Tick ==
  /\ now < MaxTime
  /\ now' = now + 1
  /\ op' = "tick"
  /\ result' = "none"
  /\ UNCHANGED <<authUsers, profiles, pendingReg, memberships, assignments, roles,
                 branches, revoked>>
  /\ UNCHANGED chapters
  /\ UNCHANGED clientVars

\* register(user, branch), first part: the row NEW.id = u is inserted into
\* auth.users and handle_new_user() reads generate_membership_number().
\* Nothing is visible to other transactions yet.
RegisterBegin(u, b) ==
  /\ u \notin authUsers
  /\ \A t \in pendingReg : t.id # u
  /\ pendingReg' = pendingReg \cup
       {[id |-> u, branch_id |-> b, membership_num |-> generate_membership_number]}
  /\ UNCHANGED <<now, authUsers, profiles, memberships, assignments, roles,
                 branches, revoked, op, result>>
  /\ UNCHANGED chapters
  /\ UNCHANGED clientVars

\* register(user, branch), second part: handle_new_user() inserts the
\* profile and, when a branch was named, the membership, and the
\* transaction commits. An error raised in the body is caught by EXCEPTION
\* WHEN OTHERS, which undoes the body's writes and returns normally, so the
\* auth.users row is kept.
RegisterCommit(u) ==
  \E t \in pendingReg :
    /\ t.id = u
    /\ LET profileRaises ==
             \/ \E p \in profiles : p.id = u
             \/ \E p \in profiles : p.membership_number = t.membership_num
           membershipRaises ==
             t.branch_id # NULL /\ t.branch_id \notin DOMAIN branches
       IN IF profileRaises \/ membershipRaises
          THEN UNCHANGED <<profiles, memberships>>
          ELSE /\ profiles' = profiles \cup
                    {[id |-> u, membership_number |-> t.membership_num]}
               /\ memberships' =
                    IF t.branch_id # NULL /\ MembershipsUnique(u, t.branch_id)
                    THEN memberships \cup {NewMembership(u, t.branch_id)}
                    ELSE memberships
    /\ pendingReg' = pendingReg \ {t}
    /\ authUsers' = authUsers \cup {u}
    /\ op' = "register"
    /\ result' = "ok"
    /\ UNCHANGED <<now, assignments, roles, branches, revoked>>
  /\ UNCHANGED chapters
  /\ UNCHANGED clientVars

\* DELETE FROM auth.users WHERE id = u, by the service: user_profiles.id,
\* memberships.user_id and executive_assignments.user_id are ON DELETE
\* CASCADE; memberships.approved_by names no ON DELETE action, so a
\* membership of somebody else that u approved makes the statement fail.
DeleteUser(u) ==
  /\ u \in authUsers
  /\ IF \E m \in memberships : m.user_id # u /\ m.approved_by = u
     THEN /\ result' = "ForeignKeyViolation"
          /\ UNCHANGED <<authUsers, profiles, memberships, assignments>>
     ELSE /\ result' = "ok"
          /\ authUsers' = authUsers \ {u}
          /\ profiles' = {p \in profiles : p.id # u}
          /\ memberships' = {m \in memberships : m.user_id # u}
          /\ assignments' = {ea \in assignments : ea.user_id # u}
  /\ op' = "deleteUser"
  /\ UNCHANGED <<now, pendingReg, roles, branches, revoked>>
  /\ UNCHANGED chapters
  /\ UNCHANGED clientVars

\* INSERT INTO memberships (user_id, branch_id) by the signed-in actor.
InsertMembership(actor, u, b) ==
  /\ actor \in authUsers
  /\ MembershipsForeignKeys(u, b)
  /\ IF ~ MembershipsWritePolicy(actor, NewMembership(u, b))
     THEN result' = "ForbiddenError" /\ UNCHANGED memberships
     ELSE IF ~ MembershipsUnique(u, b)
     THEN result' = "ConflictError" /\ UNCHANGED memberships
     ELSE result' = "ok" /\ memberships' = memberships \cup {NewMembership(u, b)}
  /\ op' = "insertMembership"
  /\ UNCHANGED <<now, authUsers, profiles, pendingReg, assignments, roles, branches,
               revoked>>
  /\ UNCHANGED chapters
  /\ UNCHANGED clientVars

\* approve(actor, membershipId) that stamps the row whatever its status is.
ApproveRestamping(actor, id) ==
  /\ actor \in authUsers
  /\ \E m \in memberships :
       /\ m.id = id
       /\ IF ~ MembershipsWritePolicy(actor, m)
          THEN result' = "ForbiddenError" /\ UNCHANGED memberships
          ELSE IF m.status \in {"pending", "lapsed", "active"}
          THEN /\ result' = "ok"
               /\ memberships' = (memberships \ {m}) \cup
                    {[m EXCEPT !.status = "active", !.approved_by = actor,
                               !.approved_at = now]}
          ELSE result' = "InvalidStateError" /\ UNCHANGED memberships
  /\ op' = "approve"
  /\ UNCHANGED <<now, authUsers, profiles, pendingReg, assignments, roles, branches,
               revoked>>
  /\ UNCHANGED chapters
  /\ UNCHANGED clientVars

\* approve(actor, membershipId)
Approve(actor, id) ==
  /\ actor \in authUsers
  /\ \E m \in memberships :
       /\ m.id = id
       /\ IF ~ MembershipsWritePolicy(actor, m)
          THEN result' = "ForbiddenError" /\ UNCHANGED memberships
          ELSE IF m.status = "active"
          THEN result' = "ok" /\ UNCHANGED memberships
          ELSE IF m.status \in {"pending", "lapsed"}
          THEN /\ result' = "ok"
               /\ memberships' = (memberships \ {m}) \cup
                    {[m EXCEPT !.status = "active", !.approved_by = actor,
                               !.approved_at = now]}
          ELSE result' = "InvalidStateError" /\ UNCHANGED memberships
  /\ op' = "approve"
  /\ UNCHANGED <<now, authUsers, profiles, pendingReg, assignments, roles, branches,
               revoked>>
  /\ UNCHANGED chapters
  /\ UNCHANGED clientVars

\* suspend(actor, membershipId, reason)
Suspend(actor, id) ==
  /\ actor \in authUsers
  /\ \E m \in memberships :
       /\ m.id = id
       /\ IF ~ MembershipsWritePolicy(actor, m)
          THEN result' = "ForbiddenError" /\ UNCHANGED memberships
          ELSE IF m.status = "active"
          THEN /\ result' = "ok"
               /\ memberships' = (memberships \ {m}) \cup
                    {[m EXCEPT !.status = "suspended"]}
          ELSE result' = "InvalidStateError" /\ UNCHANGED memberships
  /\ op' = "suspend"
  /\ UNCHANGED <<now, authUsers, profiles, pendingReg, assignments, roles, branches,
               revoked>>
  /\ UNCHANGED chapters
  /\ UNCHANGED clientVars

\* lapse(membershipId), time-based or explicit
Lapse(id) ==
  /\ \E m \in memberships :
       /\ m.id = id
       /\ IF m.status \in {"active", "suspended"}
          THEN /\ result' = "ok"
               /\ memberships' = (memberships \ {m}) \cup
                    {[m EXCEPT !.status = "lapsed"]}
          ELSE result' = "InvalidStateError" /\ UNCHANGED memberships
  /\ op' = "lapse"
  /\ UNCHANGED <<now, authUsers, profiles, pendingReg, assignments, roles, branches,
               revoked>>
  /\ UNCHANGED chapters
  /\ UNCHANGED clientVars

\* issueCard(actor, membershipId)
IssueCard(actor, id) ==
  /\ actor \in authUsers
  /\ \E m \in memberships :
       /\ m.id = id
       /\ IF ~ MembershipsWritePolicy(actor, m)
          THEN result' = "ForbiddenError" /\ UNCHANGED memberships
          ELSE IF m.status = "active"
          THEN /\ result' = "ok"
               /\ memberships' = (memberships \ {m}) \cup
                    {[m EXCEPT !.card_issued = TRUE, !.card_issued_at = now]}
          ELSE result' = "InvalidStateError" /\ UNCHANGED memberships
  /\ op' = "issueCard"
  /\ UNCHANGED <<now, authUsers, profiles, pendingReg, assignments, roles, branches,
               revoked>>
  /\ UNCHANGED chapters
  /\ UNCHANGED clientVars

\* UPDATE memberships SET status = ..., card_issued = ... WHERE id = ... by
\* the signed-in actor. The FOR ALL policies filter the rows the statement
\* sees (USING) and are checked on the new row; branch_id is not changed, so
\* both give the same answer. CHECK (status IN (...)) is the only constraint
\* on the two columns.
UpdateMembership(actor, id, status, card_issued) ==
  /\ actor \in authUsers
  /\ \E m \in memberships :
       /\ m.id = id
       /\ IF ~ MembershipsWritePolicy(actor, m)
          THEN result' = "NoRows" /\ UNCHANGED memberships
          ELSE IF status \notin {"pending", "active", "lapsed", "suspended"}
          THEN result' = "ValidationError" /\ UNCHANGED memberships
          ELSE /\ result' = "ok"
               /\ memberships' = (memberships \ {m}) \cup
                    {[m EXCEPT !.status = status, !.card_issued = card_issued]}
  /\ op' = "updateMembership"
  /\ UNCHANGED <<now, authUsers, profiles, pendingReg, assignments, roles, branches,
               revoked>>
  /\ UNCHANGED chapters
  /\ UNCHANGED clientVars

\* UPDATE roles SET name = ... WHERE id = ... by the signed-in actor, under
\* the FOR ALL policy "Chapter leaders can manage roles" and UNIQUE(name).
UpdateRoleName(actor, role_id, name) ==
  /\ actor \in authUsers
  /\ role_id \in DOMAIN roles
  /\ Cardinality({r \in DOMAIN roles \ {role_id} :
                    roles[r].name # SeedRoles[r].name}) < MaxRenames
  /\ IF ~ RolesWritePolicy(actor)
     THEN result' = "NoRows" /\ UNCHANGED roles
     ELSE IF \E r \in DOMAIN roles \ {role_id} : roles[r].name = name
     THEN result' = "ConflictError" /\ UNCHANGED roles
     ELSE result' = "ok" /\ roles' = [roles EXCEPT ![role_id].name = name]
  /\ op' = "updateRoleName"
  /\ UNCHANGED <<now, authUsers, profiles, pendingReg, memberships, assignments,
               branches, revoked>>
  /\ UNCHANGED chapters
  /\ UNCHANGED clientVars

\* UPDATE roles SET category_id = ... WHERE id = ... by the signed-in actor,
\* under the FOR ALL policy "Chapter leaders can manage roles"; the column
\* is a nullable reference to role_categories.
UpdateRoleCategory(actor, role_id, category_id) ==
  /\ actor \in authUsers
  /\ role_id \in DOMAIN roles
  /\ category_id \in SeedRoleCategories \cup {NoCategory}
  /\ Cardinality({r \in DOMAIN roles \ {role_id} :
                    roles[r].category_id # SeedRoles[r].category_id}) < MaxCategoryChanges
  /\ IF ~ RolesWritePolicy(actor)
     THEN result' = "NoRows" /\ UNCHANGED roles
     ELSE result' = "ok" /\ roles' = [roles EXCEPT ![role_id].category_id = category_id]
  /\ op' = "updateRoleCategory"
  /\ UNCHANGED <<now, authUsers, profiles, pendingReg, memberships, assignments,
               branches, revoked>>
  /\ UNCHANGED chapters
  /\ UNCHANGED clientVars

\* ------------------------------------------------------ the web client
\* isAuthenticated = !!user
isAuthenticated(u) == u # NULL

\* An AuthGuard that goes on to its children once loading has finished.
AuthGuardNoAuthCheck(loading, u, permission, hasFallback) ==
  IF loading THEN "spinner"
  ELSE IF permission # "" /\ u = NULL
  THEN (IF hasFallback THEN "fallback" ELSE "denied")
  ELSE "children"

\* What AuthGuard returns for the given context values and props.
AuthGuard(loading, u, permission, hasFallback) ==
  IF loading THEN "spinner"
  ELSE IF ~ isAuthenticated(u) THEN "null"
  ELSE IF permission # "" /\ u = NULL
  THEN (IF hasFallback THEN "fallback" ELSE "denied")
  ELSE "children"

\* React commits a state change: a mounted AuthGuard renders again with the
\* new context values loading and u, and then its effect runs, calling
\* router.push('/login') when loading has finished and nobody is signed in.
GuardCommit(loading, u) ==
  IF route = "guarded"
  THEN /\ rendered' = AuthGuard(loading, u, requiredPermission, fallback)
       /\ redirected' = (redirected \/ (~ loading /\ ~ isAuthenticated(u)))
  ELSE UNCHANGED <<rendered, redirected>>

\* checkAuthStatus up to its await: the stored token is read; without one
\* the function runs through to finally.
CheckAuthBegin ==
  /\ checkPc = "init"
  /\ IF access_token # NULL
     THEN /\ checkPc' = "await"
          /\ checkToken' = access_token
          /\ UNCHANGED <<isLoading, rendered, redirected>>
     ELSE /\ checkPc' = "done"
          /\ isLoading' = FALSE
          /\ UNCHANGED checkToken
          /\ GuardCommit(FALSE, user)
  /\ UNCHANGED <<access_token, refresh_token, user, loginPc, requiredPermission,
                 fallback, route>>
  /\ UNCHANGED <<logoutPc, refreshPc, refreshSent>>
  /\ UNCHANGED dbVars

\* checkAuthStatus after its await: getCurrentUser answered (setUser) or
\* threw (both tokens removed); finally setIsLoading(false).
CheckAuthFinish(ok) ==
  /\ checkPc = "await"
  /\ IF ok
     THEN user' = checkToken /\ UNCHANGED <<access_token, refresh_token>>
     ELSE /\ access_token' = NULL
          /\ refresh_token' = NULL
          /\ UNCHANGED user
  /\ isLoading' = FALSE
  /\ checkPc' = "done"
  /\ checkToken' = NULL
  /\ UNCHANGED <<loginPc, requiredPermission, fallback, route>>
  /\ GuardCommit(FALSE, user')
  /\ UNCHANGED <<logoutPc, refreshPc, refreshSent>>
  /\ UNCHANGED dbVars

\* login up to its second await: authApi.login answered for user u and the
\* two tokens are stored. Like logout and refreshToken it is called from an
\* event handler, after the provider's mount effect has called
\* checkAuthStatus.
LoginTokens(u) ==
  /\ checkPc # "init"
  /\ loginPc = NULL
  /\ u \in authUsers
  /\ access_token' = u
  /\ refresh_token' = u
  /\ loginPc' = u
  /\ UNCHANGED <<user, isLoading, checkPc, checkToken, requiredPermission, fallback,
                 rendered, redirected, route>>
  /\ UNCHANGED <<logoutPc, refreshPc, refreshSent>>
  /\ UNCHANGED dbVars

\* login after its second await: getCurrentUser answered (setUser) or threw.
LoginFinish(ok) ==
  /\ loginPc # NULL
  /\ user' = IF ok THEN loginPc ELSE user
  /\ loginPc' = NULL
  /\ UNCHANGED <<access_token, refresh_token, isLoading, checkPc, checkToken,
                 requiredPermission, fallback, route>>
  /\ GuardCommit(isLoading, user')
  /\ UNCHANGED <<logoutPc, refreshPc, refreshSent>>
  /\ UNCHANGED dbVars

\* logout up to its await: authApi.logout is called.
LogoutBegin ==
  /\ checkPc # "init"
  /\ logoutPc # "await"
  /\ logoutPc' = "await"
  /\ UNCHANGED <<access_token, refresh_token, user, isLoading, checkPc, checkToken, loginPc,
                 refreshPc, refreshSent, requiredPermission, fallback, rendered,
                 redirected, route>>
  /\ UNCHANGED dbVars

\* A logout that forgets the user and keeps what is stored.
LogoutKeepingTokens ==
  /\ logoutPc = "await"
  /\ logoutPc' = "done"
  /\ user' = NULL
  /\ UNCHANGED <<access_token, refresh_token, isLoading, checkPc, checkToken, loginPc,
                 refreshPc, refreshSent, requiredPermission, fallback, route>>
  /\ GuardCommit(isLoading, NULL)
  /\ UNCHANGED dbVars

\* logout, its finally block: whatever authApi.logout answered, both tokens
\* are removed and setUser(null).
Logout ==
  /\ logoutPc = "await"
  /\ logoutPc' = "done"
  /\ access_token' = NULL
  /\ refresh_token' = NULL
  /\ user' = NULL
  /\ UNCHANGED <<isLoading, checkPc, checkToken, loginPc, refreshPc, refreshSent,
                 requiredPermission, fallback, route>>
  /\ GuardCommit(isLoading, NULL)
  /\ UNCHANGED dbVars

\* refreshToken up to its first await: the stored refresh token is read;
\* without one the function throws, and its catch calls logout(), which
\* awaits authApi.logout.
RefreshBegin ==
  /\ checkPc # "init"
  /\ refreshPc \in {"idle", "done", "failed"}
  /\ IF refresh_token = NULL
     THEN refreshPc' = "logout" /\ UNCHANGED refreshSent
     ELSE refreshPc' = "await" /\ refreshSent' = refresh_token
  /\ UNCHANGED <<access_token, refresh_token, user, isLoading, checkPc, checkToken, loginPc,
                 logoutPc, requiredPermission, fallback, rendered, redirected, route>>
  /\ UNCHANGED dbVars

\* refreshToken after authApi.refreshToken: the answer carries an access
\* token for the owner of the token sent and, optionally, a refresh token
\* and the user; a rejection goes to catch, which calls logout().
RefreshFinish(ok, withRefresh, withUser) ==
  /\ refreshPc = "await"
  /\ IF ok
     THEN /\ access_token' = refreshSent
          /\ refresh_token' = IF withRefresh THEN refreshSent ELSE refresh_token
          /\ user' = IF withUser THEN refreshSent ELSE user
          /\ refreshPc' = "done"
     ELSE /\ refreshPc' = "logout"
          /\ UNCHANGED <<access_token, refresh_token, user>>
  /\ refreshSent' = NULL
  /\ UNCHANGED <<isLoading, checkPc, checkToken, loginPc, logoutPc, requiredPermission,
                 fallback, route>>
  /\ GuardCommit(isLoading, user')
  /\ UNCHANGED dbVars

\* refreshToken's catch after the await in logout(): the finally block of
\* logout runs and refreshToken returns.
RefreshLogout ==
  /\ refreshPc = "logout"
  /\ refreshPc' = "failed"
  /\ access_token' = NULL
  /\ refresh_token' = NULL
  /\ user' = NULL
  /\ UNCHANGED <<isLoading, checkPc, checkToken, loginPc, logoutPc, refreshSent,
                 requiredPermission, fallback, route>>
  /\ GuardCommit(isLoading, NULL)
  /\ UNCHANGED dbVars

\* The router follows router.push('/login'): the guarded page is left.
RouteChange ==
  /\ redirected
  /\ route = "guarded"
  /\ route' = "login"
  /\ rendered' = "unmounted"
  /\ redirected' = FALSE
  /\ UNCHANGED <<access_token, refresh_token, user, isLoading, checkPc, checkToken,
                 loginPc, requiredPermission, fallback>>
  /\ UNCHANGED <<logoutPc, refreshPc, refreshSent>>
  /\ UNCHANGED dbVars

\* The guarded page is opened again: AuthGuard mounts, renders, runs its effect.
Navigate ==
  /\ route = "login"
  /\ route' = "guarded"
  /\ UNCHANGED <<access_token, refresh_token, user, isLoading, checkPc, checkToken,
                 loginPc, requiredPermission, fallback>>
  /\ rendered' = AuthGuard(isLoading, user, requiredPermission, fallback)
  /\ redirected' = (~ isLoading /\ ~ isAuthenticated(user))
  /\ UNCHANGED <<logoutPc, refreshPc, refreshSent>>
  /\ UNCHANGED dbVars

\* The first appointment: an INSERT INTO executive_assignments by the table
\* owner, whom row level security does not restrict.
Bootstrap(u, role_id, chapter_id, branch_id, end_date) ==
  /\ assignments = {}
  /\ AssignmentsForeignKeys(u, role_id, chapter_id, branch_id)
  /\ valid_scope(chapter_id, branch_id)
  /\ assignments' =
       {NewAssignment(u, role_id, chapter_id, branch_id, now, end_date)}
  /\ op' = "bootstrap"
  /\ result' = "ok"
  /\ UNCHANGED <<now, authUsers, profiles, pendingReg, memberships, roles, branches,
               revoked>>
  /\ UNCHANGED chapters
  /\ UNCHANGED clientVars

\* INSERT INTO executive_assignments by the signed-in actor: the policies
\* are checked on the new row, then the table's constraints.
InsertAssignment(actor, u, role_id, chapter_id, branch_id, start_date, end_date) ==
  /\ actor \in authUsers
  /\ Cardinality(assignments) < MaxAssignments
  /\ AssignmentsForeignKeys(u, role_id, chapter_id, branch_id)
  /\ LET row == NewAssignment(u, role_id, chapter_id, branch_id,
                              start_date, end_date)
     IN IF ~ AssignmentsWritePolicy(actor, row)
        THEN result' = "ForbiddenError" /\ UNCHANGED assignments
        ELSE IF ~ valid_scope(chapter_id, branch_id)
        THEN result' = "ValidationError" /\ UNCHANGED assignments
        ELSE result' = "ok" /\ assignments' = assignments \cup {row}
  /\ op' = "insertAssignment"
  /\ UNCHANGED <<now, authUsers, profiles, pendingReg, memberships, roles, branches,
               revoked>>
  /\ UNCHANGED chapters
  /\ UNCHANGED clientVars

\* assign(actor, userId, roleId, {chapterId?, branchId?})
Assign(actor, u, role_id, chapter_id, branch_id) ==
  /\ actor \in authUsers
  /\ u \in authUsers
  /\ Cardinality(assignments) < MaxAssignments
  /\ IF ~ validate_role_assignment(u, role_id, chapter_id, branch_id)
     THEN result' = "ValidationError" /\ UNCHANGED assignments
     ELSE IF ~ can_assign_role(actor, u, role_id, chapter_id, branch_id)
     THEN result' = "ForbiddenError" /\ UNCHANGED assignments
     ELSE /\ result' = "ok"
          /\ assignments' = assignments \cup
               {NewAssignment(u, role_id, chapter_id, branch_id, now, NULL)}
  /\ op' = "assign"
  /\ UNCHANGED <<now, authUsers, profiles, pendingReg, memberships, roles, branches,
               revoked>>
  /\ UNCHANGED chapters
  /\ UNCHANGED clientVars

\* SELECT can_assign_role(...): the function only reads.
CanAssignRole(actor, u, role_id, chapter_id, branch_id) ==
  /\ actor \in authUsers
  /\ result' = IF can_assign_role(actor, u, role_id, chapter_id, branch_id)
               THEN "allow" ELSE "deny"
  /\ op' = "canAssignRole"
  /\ UNCHANGED <<now, authUsers, profiles, pendingReg, memberships, assignments,
               roles, branches, revoked>>
  /\ UNCHANGED chapters
  /\ UNCHANGED clientVars

\* revoke(actor, assignmentId) that ends the assignment before it asks.
RevokeBeforeCheck(actor, id) ==
  /\ actor \in authUsers
  /\ \E ea \in assignments :
       /\ ea.id = id
       /\ assignments' = (assignments \ {ea}) \cup
            {[ea EXCEPT !.end_date = now, !.is_active = FALSE]}
       /\ IF ~ can_assign_role(actor, ea.user_id, ea.role_id,
                               ea.chapter_id, ea.branch_id)
          THEN result' = "ForbiddenError" /\ UNCHANGED revoked
          ELSE result' = "ok" /\ revoked' = revoked \cup {id}
  /\ op' = "revoke"
  /\ UNCHANGED <<now, authUsers, profiles, pendingReg, memberships, roles, branches>>
  /\ UNCHANGED chapters
  /\ UNCHANGED clientVars

\* revoke(actor, assignmentId) that deletes the row instead of ending it.
RevokeDeleting(actor, id) ==
  /\ actor \in authUsers
  /\ \E ea \in assignments :
       /\ ea.id = id
       /\ IF ~ can_assign_role(actor, ea.user_id, ea.role_id,
                               ea.chapter_id, ea.branch_id)
          THEN result' = "ForbiddenError" /\ UNCHANGED <<assignments, revoked>>
          ELSE /\ result' = "ok"
               /\ assignments' = assignments \ {ea}
               /\ revoked' = revoked \cup {id}
  /\ op' = "revoke"
  /\ UNCHANGED <<now, authUsers, profiles, pendingReg, memberships, roles, branches>>
  /\ UNCHANGED chapters
  /\ UNCHANGED clientVars

\* revoke(actor, assignmentId)
Revoke(actor, id) ==
  /\ actor \in authUsers
  /\ \E ea \in assignments :
       /\ ea.id = id
       /\ IF ~ can_assign_role(actor, ea.user_id, ea.role_id,
                               ea.chapter_id, ea.branch_id)
          THEN result' = "ForbiddenError" /\ UNCHANGED <<assignments, revoked>>
          ELSE /\ result' = "ok"
               /\ assignments' = (assignments \ {ea}) \cup
                    {[ea EXCEPT !.end_date = now, !.is_active = FALSE]}
               /\ revoked' = revoked \cup {id}
  /\ op' = "revoke"
  /\ UNCHANGED <<now, authUsers, profiles, pendingReg, memberships, roles, branches>>
  /\ UNCHANGED chapters
  /\ UNCHANGED clientVars

\* INSERT INTO branches (chapter_id, name) by the signed-in actor, under the
\* FOR ALL policy "Chapter leaders can manage branches", the foreign key to
\* chapters and UNIQUE(chapter_id, name); status defaults to 'active'.
InsertBranch(actor, chapter_id, name) ==
  /\ actor \in authUsers
  /\ chapter_id \in chapters
  /\ Cardinality(DOMAIN branches) < MaxBranches
  /\ IF ~ BranchesInsertDeletePolicy(actor)
     THEN result' = "ForbiddenError" /\ UNCHANGED branches
     ELSE IF ~ BranchesUnique(branches, chapter_id, name)
     THEN result' = "ConflictError" /\ UNCHANGED branches
     ELSE /\ result' = "ok"
          /\ branches' = branches @@ (FreshBranchId(branches) :>
               [chapter_id |-> chapter_id, name |-> name, status |-> "active"])
  /\ op' = "insertBranch"
  /\ UNCHANGED <<now, authUsers, profiles, pendingReg, memberships, assignments, roles,
               revoked>>
  /\ UNCHANGED chapters
  /\ UNCHANGED clientVars

\* UPDATE branches SET status = ... WHERE id = ... by the signed-in actor,
\* under the two policies that apply to an update of branches.
UpdateBranchStatus(actor, id, status) ==
  /\ actor \in authUsers
  /\ id \in DOMAIN branches
  /\ IF ~ BranchesUpdatePolicy(actor, id)
     THEN result' = "NoRows" /\ UNCHANGED branches
     ELSE result' = "ok" /\ branches' = [branches EXCEPT ![id].status = status]
  /\ op' = "updateBranchStatus"
  /\ UNCHANGED <<now, authUsers, profiles, pendingReg, memberships, assignments, roles,
               revoked>>
  /\ UNCHANGED chapters
  /\ UNCHANGED clientVars

\* The branch update script, run by the table owner: it looks the chapter
\* 'NDC UK & Ireland' (id 1) up, raises when there is none, and otherwise
\* creates or re-activates every branch it names.
UpsertBranches ==
  /\ IF 1 \notin chapters
     THEN result' = "NotFoundError" /\ UNCHANGED branches
     ELSE result' = "ok" /\ branches' = UpsertLoop(branches, 1, 1)
  /\ op' = "createBranches"
  /\ UNCHANGED <<now, authUsers, profiles, pendingReg, memberships, assignments, roles,
               revoked>>
  /\ UNCHANGED chapters
  /\ UNCHANGED clientVars

\* DELETE FROM roles WHERE id = ... that does not look at the assignments.
DeleteRoleUnrestricted(actor, role_id) ==
  /\ actor \in authUsers \cup {Owner}
  /\ role_id \in DOMAIN roles
  /\ Cardinality(DOMAIN SeedRoles \ DOMAIN roles) < MaxDeletedRoles
  /\ IF actor # Owner /\ ~ RolesWritePolicy(actor)
     THEN result' = "NoRows" /\ UNCHANGED roles
     ELSE /\ result' = "ok"
          /\ roles' = [r \in DOMAIN roles \ {role_id} |-> roles[r]]
  /\ op' = "deleteRole"
  /\ UNCHANGED <<now, authUsers, profiles, pendingReg, memberships, assignments,
               branches, revoked>>
  /\ UNCHANGED chapters
  /\ UNCHANGED clientVars

\* DELETE FROM roles WHERE id = ... by the signed-in actor or the owner: the
\* FOR ALL policy "Chapter leaders can manage roles" hides the row from
\* others, and executive_assignments.role_id is ON DELETE RESTRICT.
DeleteRole(actor, role_id) ==
  /\ actor \in authUsers \cup {Owner}
  /\ role_id \in DOMAIN roles
  /\ Cardinality(DOMAIN SeedRoles \ DOMAIN roles) < MaxDeletedRoles
  /\ IF actor # Owner /\ ~ RolesWritePolicy(actor)
     THEN result' = "NoRows" /\ UNCHANGED roles
     ELSE IF \E ea \in assignments : ea.role_id = role_id
     THEN result' = "ForeignKeyViolation" /\ UNCHANGED roles
     ELSE /\ result' = "ok"
          /\ roles' = [r \in DOMAIN roles \ {role_id} |-> roles[r]]
  /\ op' = "deleteRole"
  /\ UNCHANGED <<now, authUsers, profiles, pendingReg, memberships, assignments,
               branches, revoked>>
  /\ UNCHANGED chapters
  /\ UNCHANGED clientVars

\* DELETE FROM branches WHERE id = ...: policy "Chapter leaders can manage
\* branches"; memberships.branch_id is ON DELETE CASCADE, while
\* executive_assignments.branch_id names no ON DELETE action, so a row that
\* references the branch makes the statement fail.
DeleteBranch(actor, id) ==
  /\ actor \in authUsers \cup {Owner}
  /\ id \in DOMAIN branches
  /\ IF actor # Owner /\ ~ BranchesInsertDeletePolicy(actor)
     THEN result' = "NoRows" /\ UNCHANGED <<branches, memberships>>
     ELSE IF \E ea \in assignments : ea.branch_id = id
     THEN result' = "ForeignKeyViolation" /\ UNCHANGED <<branches, memberships>>
     ELSE /\ result' = "ok"
          /\ branches' = [b \in DOMAIN branches \ {id} |-> branches[b]]
          /\ memberships' = {m \in memberships : m.branch_id # id}
  /\ op' = "deleteBranch"
  /\ UNCHANGED <<now, authUsers, profiles, pendingReg, assignments, roles, revoked>>
  /\ UNCHANGED chapters
  /\ UNCHANGED clientVars

\* DELETE FROM chapters WHERE id = ...: policy "Chapter Chairman can manage
\* chapters"; branches.chapter_id and memberships.branch_id are ON DELETE
\* CASCADE, while executive_assignments.chapter_id and .branch_id name no
\* ON DELETE action, so a row that references the chapter or one of its
\* branches makes the whole statement fail.
DeleteChapter(actor, id) ==
  /\ actor \in authUsers \cup {Owner}
  /\ id \in chapters
  /\ LET gone == {b \in DOMAIN branches : branches[b].chapter_id = id}
     IN IF actor # Owner /\ ~ ChaptersWritePolicy(actor)
        THEN result' = "NoRows" /\ UNCHANGED <<chapters, branches, memberships>>
        ELSE IF \E ea \in assignments : ea.chapter_id = id \/ ea.branch_id \in gone
        THEN /\ result' = "ForeignKeyViolation"
             /\ UNCHANGED <<chapters, branches, memberships>>
        ELSE /\ result' = "ok"
             /\ chapters' = chapters \ {id}
             /\ branches' = [b \in DOMAIN branches \ gone |-> branches[b]]
             /\ memberships' = {m \in memberships : m.branch_id \notin gone}
  /\ op' = "deleteChapter"
  /\ UNCHANGED <<now, authUsers, profiles, pendingReg, assignments, roles, revoked>>
  /\ UNCHANGED clientVars

\* The assignment ledger and the authorization engine, once the users have
\* signed up: executives are appointed and revoked, time passes.
Next ==
  \/ Tick
  \/ \E u \in Users, role_id \in DOMAIN roles,
        chapter_id \in ChapterIds \cup {NULL}, branch_id \in BranchIds \cup {NULL},
        end_date \in {NULL} \cup {t \in Times : t > now} :
       /\ validate_role_assignment(u, role_id, chapter_id, branch_id)
       /\ Bootstrap(u, role_id, chapter_id, branch_id, end_date)
  \/ \E actor \in Users, u \in Users, role_id \in DOMAIN roles,
        chapter_id \in ChapterIds \cup {NULL}, branch_id \in BranchIds \cup {NULL},
        start_date \in {t \in Times : t >= now},
        end_date \in {NULL} \cup {t \in Times : t > now} :
       InsertAssignment(actor, u, role_id, chapter_id, branch_id, start_date, end_date)
  \/ \E actor \in Users, u \in Users, role_id \in DOMAIN roles,
        chapter_id \in ChapterIds \cup {NULL}, branch_id \in BranchIds \cup {NULL} :
       Assign(actor, u, role_id, chapter_id, branch_id)
  \/ \E actor \in Users, id \in 1..MaxAssignments : Revoke(actor, id)

Spec == InitRegistered /\ [][Next]_vars

\* The membership ledger: users register against a branch, one executive is
\* appointed, memberships are added and approved.
NextMembership ==
  \/ \E u \in Users, b \in BranchIds \cup {NULL} : RegisterBegin(u, b)
  \/ \E u \in Users : RegisterCommit(u)
  \/ \E u \in Users, role_id \in DOMAIN roles,
        chapter_id \in ChapterIds \cup {NULL}, branch_id \in BranchIds \cup {NULL} :
       /\ validate_role_assignment(u, role_id, chapter_id, branch_id)
       /\ Bootstrap(u, role_id, chapter_id, branch_id, NULL)
  \/ \E actor \in Users, u \in Users, b \in BranchIds : InsertMembership(actor, u, b)
  \/ \E actor \in Users, m \in memberships : Approve(actor, m.id)

SpecMembership == Init /\ [][NextMembership]_vars

\* User 1 has registered against branch 1 and the other users without naming
\* a branch, in the order of their ids.
InitMembers ==
  /\ now = 0
  /\ authUsers = Users
  /\ profiles = {[id |-> u, membership_number |-> u] : u \in Users}
  /\ pendingReg = {}
  /\ memberships =
       {[id |-> <<1, 1, 0>>, user_id |-> 1, branch_id |-> 1,
         status |-> "pending", approved_by |-> NULL, approved_at |-> NULL,
         card_issued |-> FALSE, card_issued_at |-> NULL]}
  /\ assignments = {}
  /\ roles = SeedRoles
  /\ branches = SeedBranches
  /\ chapters = ChapterIds
  /\ revoked = {}
  /\ op = "register"
  /\ result = "ok"
  /\ ClientInit

\* The life of a membership: one executive is appointed, the membership is
\* approved, suspended, lapsed, given a card or updated directly, time passes.
NextLifecycle ==
  \/ Tick
  \/ \E u \in Users, role_id \in DOMAIN roles,
        chapter_id \in ChapterIds \cup {NULL}, branch_id \in BranchIds \cup {NULL} :
       /\ validate_role_assignment(u, role_id, chapter_id, branch_id)
       /\ Bootstrap(u, role_id, chapter_id, branch_id, NULL)
  \/ \E actor \in Users, m \in memberships : Approve(actor, m.id)
  \/ \E actor \in Users, m \in memberships : Suspend(actor, m.id)
  \/ \E m \in memberships : Lapse(m.id)
  \/ \E actor \in Users, m \in memberships : IssueCard(actor, m.id)
  \/ \E actor \in Users, m \in memberships,
        status \in {"pending", "active", "lapsed", "suspended", "expired"},
        card_issued \in BOOLEAN :
       UpdateMembership(actor, m.id, status, card_issued)

SpecLifecycle == InitMembers /\ [][NextLifecycle]_vars

\* The role catalog and the engine: one executive is appointed by the
\* owner, executives assign and revoke roles, chapter leaders rename roles.
NextCatalog ==
  \/ \E u \in Users, role_id \in DOMAIN roles,
        chapter_id \in ChapterIds \cup {NULL}, branch_id \in BranchIds \cup {NULL} :
       /\ validate_role_assignment(u, role_id, chapter_id, branch_id)
       /\ Bootstrap(u, role_id, chapter_id, branch_id, NULL)
  \/ \E actor \in Users, u \in Users, role_id \in DOMAIN roles,
        chapter_id \in ChapterIds \cup {NULL}, branch_id \in BranchIds \cup {NULL} :
       Assign(actor, u, role_id, chapter_id, branch_id)
  \/ \E actor \in Users, id \in 1..MaxAssignments : Revoke(actor, id)
  \/ \E actor \in Users, role_id \in DOMAIN roles, name \in NewRoleNames :
       UpdateRoleName(actor, role_id, name)

SpecCatalog == InitRegistered /\ [][NextCatalog]_vars

\* The engine and the operations that consult it: one executive is
\* appointed by the owner; roles are assigned and revoked, the membership
\* is approved, and can_assign_role is evaluated on its own.
NextEngine ==
  \/ \E u \in Users, role_id \in DOMAIN roles,
        chapter_id \in ChapterIds \cup {NULL}, branch_id \in BranchIds \cup {NULL} :
       /\ validate_role_assignment(u, role_id, chapter_id, branch_id)
       /\ Bootstrap(u, role_id, chapter_id, branch_id, NULL)
  \/ \E actor \in Users, u \in Users, role_id \in DOMAIN roles,
        chapter_id \in ChapterIds \cup {NULL}, branch_id \in BranchIds \cup {NULL} :
       Assign(actor, u, role_id, chapter_id, branch_id)
  \/ \E actor \in Users, id \in 1..MaxAssignments : Revoke(actor, id)
  \/ \E actor \in Users, m \in memberships : Approve(actor, m.id)
  \/ \E actor \in Users, u \in Users, role_id \in DOMAIN roles,
        chapter_id \in ChapterIds \cup {NULL}, branch_id \in BranchIds \cup {NULL} :
       CanAssignRole(actor, u, role_id, chapter_id, branch_id)

SpecEngine == InitMembers /\ [][NextEngine]_vars

\* The users have signed up; the browser may hold the tokens of an earlier
\* session, and the guarded page names a permission and a fallback or not.
InitClient ==
  /\ now = 0
  /\ authUsers = Users
  /\ profiles = {[id |-> u, membership_number |-> u] : u \in Users}
  /\ pendingReg = {}
  /\ memberships = {}
  /\ assignments = {}
  /\ roles = SeedRoles
  /\ branches = SeedBranches
  /\ chapters = ChapterIds
  /\ revoked = {}
  /\ op = "register"
  /\ result = "ok"
  /\ access_token \in Users \cup {NULL}
  /\ refresh_token = access_token
  /\ user = NULL
  /\ isLoading = TRUE
  /\ checkPc = "init"
  /\ checkToken = NULL
  /\ loginPc = NULL
  /\ logoutPc = "idle"
  /\ refreshPc = "idle"
  /\ refreshSent = NULL
  /\ requiredPermission \in PermissionNames \cup {""}
  /\ fallback \in BOOLEAN
  /\ rendered = "spinner"
  /\ redirected = FALSE
  /\ route = "guarded"

\* The web client: the auth context is loaded, users sign in and out, the
\* guard renders and redirects; one executive is appointed meanwhile.
NextClient ==
  \/ CheckAuthBegin
  \/ \E ok \in BOOLEAN : CheckAuthFinish(ok)
  \/ \E u \in Users : LoginTokens(u)
  \/ \E ok \in BOOLEAN : LoginFinish(ok)
  \/ LogoutBegin
  \/ Logout
  \/ RefreshBegin
  \/ \E ok \in BOOLEAN, withRefresh \in BOOLEAN, withUser \in BOOLEAN :
       RefreshFinish(ok, withRefresh, withUser)
  \/ RefreshLogout
  \/ RouteChange
  \/ Navigate
  \/ \E u \in Users, role_id \in {1, 3, 5},
        chapter_id \in ChapterIds \cup {NULL}, branch_id \in {1, NULL} :
       /\ validate_role_assignment(u, role_id, chapter_id, branch_id)
       /\ Bootstrap(u, role_id, chapter_id, branch_id, NULL)

SpecClient == InitClient /\ [][NextClient]_vars

\* The organization hierarchy store: one executive is appointed by the
\* owner; branches are created one at a time or by the update script, and
\* their status is changed.
NextBranches ==
  \/ \E u \in Users, role_id \in DOMAIN roles,
        chapter_id \in ChapterIds \cup {NULL}, branch_id \in BranchIds \cup {NULL} :
       /\ validate_role_assignment(u, role_id, chapter_id, branch_id)
       /\ Bootstrap(u, role_id, chapter_id, branch_id, NULL)
  \/ \E actor \in Users, chapter_id \in ChapterIds, name \in NewBranchNames :
       InsertBranch(actor, chapter_id, name)
  \/ \E actor \in Users, id \in DOMAIN branches, status \in {"active", "inactive", "pending"} :
       UpdateBranchStatus(actor, id, status)
  \/ UpsertBranches

SpecBranches == InitRegistered /\ [][NextBranches]_vars

\* Teardown: one executive is appointed by the owner and may be revoked,
\* memberships are added, and roles, branches and chapters are deleted.
NextTeardown ==
  \/ \E u \in Users, role_id \in DOMAIN roles,
        chapter_id \in ChapterIds \cup {NULL}, branch_id \in BranchIds \cup {NULL} :
       /\ validate_role_assignment(u, role_id, chapter_id, branch_id)
       /\ Bootstrap(u, role_id, chapter_id, branch_id, NULL)
  \/ \E actor \in Users, id \in 1..MaxAssignments : Revoke(actor, id)
  \/ \E actor \in Users, u \in Users, b \in BranchIds : InsertMembership(actor, u, b)
  \/ \E actor \in Users \cup {Owner}, role_id \in DOMAIN roles : DeleteRole(actor, role_id)
  \/ \E actor \in Users \cup {Owner}, id \in DOMAIN branches : DeleteBranch(actor, id)
  \/ \E actor \in Users \cup {Owner}, id \in chapters : DeleteChapter(actor, id)

SpecTeardown == InitRegistered /\ [][NextTeardown]_vars

\* One actor on their own: user 1 is appointed by the owner and is then the
\* only one who acts, through the engine and through direct writes to
\* executive_assignments and roles.
NextEscalation ==
  \/ \E role_id \in DOMAIN roles,
        chapter_id \in ChapterIds \cup {NULL}, branch_id \in BranchIds \cup {NULL} :
       /\ validate_role_assignment(1, role_id, chapter_id, branch_id)
       /\ Bootstrap(1, role_id, chapter_id, branch_id, NULL)
  \/ \E u \in Users, role_id \in DOMAIN roles,
        chapter_id \in ChapterIds \cup {NULL}, branch_id \in BranchIds \cup {NULL} :
       Assign(1, u, role_id, chapter_id, branch_id)
  \/ \E u \in Users, role_id \in DOMAIN roles,
        chapter_id \in ChapterIds \cup {NULL}, branch_id \in BranchIds \cup {NULL} :
       InsertAssignment(1, u, role_id, chapter_id, branch_id, now, NULL)
  \/ \E id \in 1..MaxAssignments : Revoke(1, id)
  \/ \E role_id \in DOMAIN roles, name \in NewRoleNames : UpdateRoleName(1, role_id, name)

SpecEscalation == InitRegistered /\ [][NextEscalation]_vars

\* Validation and the role catalog: one executive is appointed by the owner,
\* executives assign roles, chapter leaders move roles between categories
\* or out of every category.
NextValidation ==
  \/ \E u \in Users, role_id \in DOMAIN roles,
        chapter_id \in ChapterIds \cup {NULL}, branch_id \in BranchIds \cup {NULL} :
       /\ validate_role_assignment(u, role_id, chapter_id, branch_id)
       /\ Bootstrap(u, role_id, chapter_id, branch_id, NULL)
  \/ \E actor \in Users, u \in Users, role_id \in DOMAIN roles,
        chapter_id \in ChapterIds \cup {NULL}, branch_id \in BranchIds \cup {NULL} :
       Assign(actor, u, role_id, chapter_id, branch_id)
  \/ \E actor \in Users, role_id \in DOMAIN roles,
        category_id \in {NoCategory, "Committees"} :
       UpdateRoleCategory(actor, role_id, category_id)

SpecValidation == InitRegistered /\ [][NextValidation]_vars

\* Accounts: users sign up, possibly at the same time, and are deleted.
NextUsers ==
  \/ \E u \in Users, b \in BranchIds \cup {NULL} : RegisterBegin(u, b)
  \/ \E u \in Users : RegisterCommit(u)
  \/ \E u \in Users : DeleteUser(u)

SpecUsers == Init /\ [][NextUsers]_vars

\* ------------------------------------------------------------ properties
\* "Currently effective" as the specification defines it.
Effective(ea) ==
  /\ ea.is_active
  /\ (ea.end_date = NULL \/ ea.end_date > now)
  /\ ea.start_date <= now

EffectiveAssignments(uid) ==
  {ea \in assignments : ea.user_id = uid /\ Effective(ea)}

\* The scope fields of an assignment agree with its role's scope_type.
ScopeConsistent(ea) ==
  CASE roles[ea.role_id].scope_type = "chapter" -> ea.chapter_id # NULL
    [] roles[ea.role_id].scope_type = "branch" -> ea.branch_id # NULL
    [] roles[ea.role_id].scope_type = "both" ->
         (ea.chapter_id # NULL \/ ea.branch_id # NULL)

\* The rows a policy of executive_assignments may be asked about.
TargetRows ==
  [role_id : DOMAIN roles, branch_id : BranchIds \cup {NULL}]

\* Some authorization check of the write paths allows uid something.
AllowedSomething(uid) ==
  \/ \E u \in Users, r \in DOMAIN roles, c \in ChapterIds \cup {NULL},
        b \in BranchIds \cup {NULL} : can_assign_role(uid, u, r, c, b)
  \/ \E row \in TargetRows : AssignmentsWritePolicy(uid, row)
  \/ \E b \in BranchIds : MembershipsWritePolicy(uid, [branch_id |-> b])
  \/ \E b \in BranchIds : BranchesUpdatePolicy(uid, b)
  \/ BranchesInsertDeletePolicy(uid)
  \/ ChaptersWritePolicy(uid)
  \/ RolesWritePolicy(uid)
  \/ RoleCategoriesWritePolicy(uid)

\* C1: every persisted executive assignment has scope fields consistent
\* with the scope_type of its role (chapter => chapter_id set, branch =>
\* branch_id set, both => at least one set), however the row was written.
C1_ScopeValidity ==
  \A ea \in assignments : ea.role_id \in DOMAIN roles => ScopeConsistent(ea)

\* C2: an actor with zero effective assignments is denied every
\* authorization check: can_assign_role for every role and scope, and every
\* write policy of memberships, executive assignments, branches, chapters,
\* roles and role categories.
C2_DenyByDefault ==
  \A uid \in Users : EffectiveAssignments(uid) = {} => ~ AllowedSomething(uid)

\* C3: an actor holding an effective 'Chairman' assignment is allowed every
\* operation: can_assign_role for every role and target scope, and every
\* write on memberships, executive assignments, branches, chapters, roles,
\* role categories and other users' profiles.
C3_SuperAuthority ==
  \A uid \in Users :
    (\E ea \in EffectiveAssignments(uid) :
        roles[ea.role_id].name = <<"Chairman">>)
    => /\ \A u \in Users, r \in DOMAIN roles, c \in ChapterIds \cup {NULL},
             b \in BranchIds \cup {NULL} : can_assign_role(uid, u, r, c, b)
       /\ \A row \in TargetRows : AssignmentsWritePolicy(uid, row)
       /\ \A b \in BranchIds : MembershipsWritePolicy(uid, [branch_id |-> b])
       /\ \A b \in BranchIds : BranchesUpdatePolicy(uid, b)
       /\ BranchesInsertDeletePolicy(uid)
       /\ ChaptersWritePolicy(uid)
       /\ RolesWritePolicy(uid)
       /\ RoleCategoriesWritePolicy(uid)
       /\ \A p \in profiles : ProfilesUpdatePolicy(uid, p)

\* All effective assignments of uid are branch-scoped roles held for branch b.
BranchScopedFor(uid, b) ==
  /\ EffectiveAssignments(uid) # {}
  /\ \A ea \in EffectiveAssignments(uid) :
       roles[ea.role_id].scope_type = "branch" /\ ea.branch_id = b

\* C4: an actor whose effective assignments are all branch-scoped roles for
\* branch B is denied every operation whose target branch is C # B:
\* assigning or revoking a role in C, writing a membership of C, updating C.
C4_BranchScoping ==
  \A uid \in Users, b \in BranchIds, c \in BranchIds :
    (b # c /\ BranchScopedFor(uid, b))
    => /\ \A u \in Users, r \in DOMAIN roles, ch \in ChapterIds \cup {NULL} :
            ~ can_assign_role(uid, u, r, ch, c)
       /\ \A r \in DOMAIN roles :
            ~ AssignmentsWritePolicy(uid, [role_id |-> r, branch_id |-> c])
       /\ ~ MembershipsWritePolicy(uid, [branch_id |-> c])
       /\ ~ BranchesUpdatePolicy(uid, c)

\* C5: once revoke has ended an assignment, no authorization check reads
\* it again: every allow of can_assign_role rests on an assignment of the
\* actor that has not been revoked, and no revoked row is among the rows
\* the policies read.
C5_RevocationImmediacy ==
  /\ \A uid \in Users : \A ea \in AssignerRoles(uid) : ea.id \notin revoked
  /\ \A uid \in Users, u \in Users, r \in DOMAIN roles,
        c \in ChapterIds \cup {NULL}, b \in BranchIds \cup {NULL} :
       can_assign_role(uid, u, r, c, b)
       => \E ea \in assignments :
            /\ ea.user_id = uid
            /\ ea.id \notin revoked
            /\ AssignRule(ea, r, b)

\* A revoke has ended a Chairman assignment whose holder now is denied.
C5_Witness ==
  \E ea \in assignments :
    /\ ea.id \in revoked
    /\ op = "revoke" /\ result = "ok"
    /\ roles[ea.role_id].name = <<"Chairman">>
    /\ \A r \in DOMAIN roles, b \in BranchIds \cup {NULL} :
         ~ can_assign_role(ea.user_id, ea.user_id, r, NULL, b)

\* C6: authorization decisions are derived only from currently effective
\* assignments: every row an authorization check reads is effective, and
\* every allow of can_assign_role rests on an effective assignment.
C6_OnlyEffective ==
  /\ \A uid \in Users : \A ea \in AssignerRoles(uid) : Effective(ea)
  /\ \A uid \in Users, u \in Users, r \in DOMAIN roles,
        c \in ChapterIds \cup {NULL}, b \in BranchIds \cup {NULL} :
       can_assign_role(uid, u, r, c, b)
       => \E ea \in EffectiveAssignments(uid) : AssignRule(ea, r, b)

\* C7: at most one membership exists for each (user_id, branch_id) pair,
\* whatever the order in which registrations and inserts are applied.
C7_UniqueMembership ==
  \A m1 \in memberships, m2 \in memberships :
    (m1.user_id = m2.user_id /\ m1.branch_id = m2.branch_id) => m1 = m2

\* An insert for a pair that already has a membership was rejected.
C7_Witness ==
  /\ op = "insertMembership"
  /\ result = "ConflictError"
  /\ \E m \in memberships : m.status = "pending"

\* C8: register(U, B) with no membership (U, B) creates exactly one pending
\* membership (U, B); with one it fails with ConflictError and leaves the
\* memberships unchanged.
C8_RegisterOnceThenConflict ==
  [][\A t \in pendingReg :
       (t.branch_id # NULL /\ RegisterCommit(t.id)) =>
         IF MembershipsUnique(t.id, t.branch_id)
         THEN /\ Cardinality({m \in memberships' :
                    m.user_id = t.id /\ m.branch_id = t.branch_id}) = 1
              /\ \A m \in memberships' :
                   (m.user_id = t.id /\ m.branch_id = t.branch_id)
                   => m.status = "pending"
         ELSE /\ result' = "ConflictError"
              /\ memberships' = memberships]_vars

\* The actor holds no role: none of the actor's assignments is active.
HoldsNoRole(actor) ==
  \A ea \in assignments : ea.user_id = actor => ~ ea.is_active

\* C9: approve by an actor with no roles on a pending membership is denied
\* with ForbiddenError and changes no membership.
C9_ApproveDeniedWithoutRole ==
  [][\A actor \in Users, m \in memberships :
       (Approve(actor, m.id) /\ HoldsNoRole(actor) /\ m.status = "pending")
       => /\ result' = "ForbiddenError"
          /\ memberships' = memberships]_vars

\* An approve was denied while nobody holds a role and a membership is pending.
C9_Witness ==
  /\ op = "approve"
  /\ result = "ForbiddenError"
  /\ assignments = {}
  /\ \E m \in memberships :
       m.status = "pending" /\ m.approved_by = NULL /\ m.approved_at = NULL

\* The actor holds an effective 'Branch Chairman' assignment for branch b.
EffectiveBranchChairman(actor, b) ==
  \E ea \in EffectiveAssignments(actor) :
    roles[ea.role_id].name = <<"Branch", "Chairman">> /\ ea.branch_id = b

\* C10: approve by an actor holding an effective 'Branch Chairman'
\* assignment for branch B on a pending membership (U, B) makes it active
\* with approved_by = the actor and approved_at set, and changes no other
\* membership.
C10_BranchChairmanApproves ==
  [][\A actor \in Users, m \in memberships :
       (/\ Approve(actor, m.id)
        /\ m.status = "pending"
        /\ EffectiveBranchChairman(actor, m.branch_id))
       => /\ result' = "ok"
          /\ \E n \in memberships' :
               /\ n.id = m.id /\ n.user_id = m.user_id
               /\ n.branch_id = m.branch_id
               /\ n.status = "active"
               /\ n.approved_by = actor
               /\ n.approved_at # NULL
          /\ \A o \in memberships : o # m => o \in memberships'
          /\ Cardinality(memberships') = Cardinality(memberships)]_vars

\* A Branch Chairman has approved a membership of the own branch while a
\* membership of another branch is still pending.
C10_Witness ==
  /\ op = "approve"
  /\ result = "ok"
  /\ \E m \in memberships :
       /\ m.status = "active"
       /\ m.approved_by # NULL
       /\ EffectiveBranchChairman(m.approved_by, m.branch_id)
  /\ \E o \in memberships : o.status = "pending"

\* C11: approve on a membership that is already active changes nothing
\* (status stays active, approved_by and approved_at keep the values of the
\* first approval) and, for an actor allowed to approve, succeeds.
C11_ApproveIdempotent ==
  [][\A actor \in Users, m \in memberships :
       (Approve(actor, m.id) /\ m.status = "active")
       => /\ memberships' = memberships
          /\ (MembershipsWritePolicy(actor, m) => result' = "ok")]_vars

\* An approve has succeeded at a time later than the stamp of every
\* membership, all of which are active: it was a repeated approval.
C11_Witness ==
  /\ op = "approve"
  /\ result = "ok"
  /\ memberships # {}
  /\ \A m \in memberships :
       /\ m.status = "active"
       /\ m.approved_by # NULL
       /\ m.approved_at # NULL
       /\ m.approved_at < now

\* C13: issueCard by an allowed actor on a membership that is not active
\* fails with InvalidStateError and changes nothing, on an active one it
\* sets card_issued; and in every step card_issued changes only from false
\* to true on a membership that is or has been active.
C13_CardOnlyFromActive ==
  [][/\ \A actor \in Users, m \in memberships :
          (IssueCard(actor, m.id) /\ MembershipsWritePolicy(actor, m))
          => IF m.status = "active"
             THEN /\ result' = "ok"
                  /\ \E n \in memberships' : n.id = m.id /\ n.card_issued
             ELSE /\ result' = "InvalidStateError"
                  /\ memberships' = memberships
     /\ \A m \in memberships, n \in memberships' :
          (n.id = m.id /\ n.card_issued # m.card_issued)
          => /\ n.card_issued
             /\ (m.status = "active" \/ n.status = "active")]_vars

\* The status changes of the membership state machine.
AllowedTransitions ==
  {<<"pending", "active">>, <<"active", "suspended">>, <<"active", "lapsed">>,
   <<"suspended", "lapsed">>, <<"lapsed", "active">>}

\* C16: in every step, a membership whose status changes follows one of
\* pending -> active, active -> suspended, active|suspended -> lapsed,
\* lapsed -> active.
C16_StatusTransitions ==
  [][\A m \in memberships, n \in memberships' :
       (n.id = m.id /\ n.status # m.status)
       => <<m.status, n.status>> \in AllowedTransitions]_vars

\* C12: assign of a role whose scope_type is 'chapter' with a branch id and
\* no chapter id is rejected with ValidationError and persists no row, for
\* every actor, the Chairman included.
C12_ChapterRoleNeedsChapter ==
  [][\A actor \in Users, u \in Users, r \in DOMAIN roles, b \in BranchIds :
       (Assign(actor, u, r, NULL, b) /\ roles[r].scope_type = "chapter")
       => /\ result' = "ValidationError"
          /\ assignments' = assignments]_vars

\* An assign was rejected as invalid while an effective Chairman exists.
C12_Witness ==
  /\ op = "assign"
  /\ result = "ValidationError"
  /\ \E ea \in assignments :
       Effective(ea) /\ roles[ea.role_id].name = <<"Chairman">>

\* C17: the policies of executive_assignments and can_assign_role agree:
\* for every actor, target role and target scope, the policies allow the
\* actor to write an assignment of that role in that scope exactly when
\* can_assign_role returns true.
C17_PoliciesMatchEngine ==
  \A uid \in Users, u \in Users, r \in DOMAIN roles,
     c \in ChapterIds \cup {NULL}, b \in BranchIds \cup {NULL} :
    AssignmentsWritePolicy(uid, [role_id |-> r, branch_id |-> b])
    <=> can_assign_role(uid, u, r, c, b)

\* C14: a change of roles.name succeeds only for an actor holding an
\* effective 'Chairman' assignment; an actor whose effective roles are
\* 'Secretary' or any other role is denied.
C14_RenameOnlyChairman ==
  [][\A actor \in Users, r \in DOMAIN roles, name \in NewRoleNames :
       (UpdateRoleName(actor, r, name) /\ result' = "ok")
       => \E ea \in EffectiveAssignments(actor) :
            roles[ea.role_id].name = <<"Chairman">>]_vars

\* Every effective assignment of uid is of the role named 'Secretary'.
OnlySecretary(uid) ==
  /\ EffectiveAssignments(uid) # {}
  /\ \A ea \in EffectiveAssignments(uid) :
       roles[ea.role_id].name = <<"Secretary">>

\* C15: an actor whose only effective role is 'Secretary' may assign or
\* revoke a target role exactly when the target role is of the category
\* 'Committees', whatever the target role is named.
C15_SecretaryByCategory ==
  \A uid \in Users :
    OnlySecretary(uid)
    => \A u \in Users, r \in DOMAIN roles, c \in ChapterIds \cup {NULL},
          b \in BranchIds \cup {NULL} :
         /\ can_assign_role(uid, u, r, c, b)
              <=> roles[r].category_id = "Committees"
         /\ SecretaryAssignmentsPolicy(uid, [role_id |-> r, branch_id |-> b])
              <=> roles[r].category_id = "Committees"

C19_GuardHidesChildren ==
  /\ rendered = "children" => (~ isLoading /\ user # NULL)
  /\ (route = "guarded" /\ ~ isLoading /\ user = NULL)
       => (redirected /\ rendered = "null")

\* Loading has finished with nobody signed in: nothing is shown and the
\* redirect is requested.
C19_Witness ==
  /\ route = "guarded"
  /\ ~ isLoading
  /\ user = NULL
  /\ checkPc = "done"
  /\ rendered = "null"
  /\ redirected

\* The user holds the permission: an active assignment of a role whose
\* permissions name the area, or all.
HoldsPermission(u, permission) ==
  \E ea \in AssignerRoles(u) :
    RolePermissions[ea.role_id] \cap {"all", permission} # {}

\* C20: with a requiredPermission, AuthGuard shows its children only to a
\* signed-in user who holds the permission; a signed-in user who lacks it
\* gets the fallback or the 'Access denied' message.
C20_GuardChecksPermission ==
  (route = "guarded" /\ requiredPermission # "" /\ ~ isLoading /\ user # NULL)
  => IF HoldsPermission(user, requiredPermission)
     THEN rendered = "children"
     ELSE rendered = (IF fallback THEN "fallback" ELSE "denied")

\* C21: revoke ends an assignment without deleting it. After a revoke every
\* row that existed still exists under its id with the same user_id, role_id,
\* chapter_id, branch_id and start_date; a successful revoke leaves exactly
\* one row changed, now with is_active = false and end_date set, and a
\* denied one changes none; the number of rows does not decrease.
C21_RevokeKeepsRow ==
  [][op' = "revoke" =>
       /\ Cardinality(assignments') >= Cardinality(assignments)
       /\ \A ea \in assignments : \E n \in assignments' :
            /\ n.id = ea.id
            /\ n.user_id = ea.user_id
            /\ n.role_id = ea.role_id
            /\ n.chapter_id = ea.chapter_id
            /\ n.branch_id = ea.branch_id
            /\ n.start_date = ea.start_date
            /\ (n # ea => (~ n.is_active /\ n.end_date # NULL))
       /\ (result' = "ok" =>
             \E ea \in assignments : \E n \in assignments' :
               /\ n.id = ea.id
               /\ ~ n.is_active
               /\ n.end_date # NULL
               /\ assignments' \ {n} = assignments \ {ea})
       /\ (result' # "ok" => assignments' = assignments)]_vars

\* A revoke has succeeded: the ended row is still there next to a row of
\* another user that is still active.
C21_Witness ==
  /\ op = "revoke"
  /\ result = "ok"
  /\ \E ea \in assignments :
       /\ ea.id \in revoked
       /\ ~ ea.is_active
       /\ ea.end_date # NULL
       /\ \E other \in assignments :
            other.id # ea.id /\ other.is_active /\ other.id \notin revoked

\* No two branches of a chapter have the same name.
BranchNamesUnique ==
  \A a, b \in DOMAIN branches :
    (branches[a].chapter_id = branches[b].chapter_id
     /\ branches[a].name = branches[b].name) => a = b

\* C22: no two branches of a chapter have the same name, and creating a
\* branch whose name the chapter already has leaves every existing branch,
\* its status included, as it was: a creation, of one branch or by the
\* script, changes no existing branch; it fails with ConflictError without
\* writing, or it succeeds and has added a branch.
C22_DuplicateBranchConflicts ==
  /\ []BranchNamesUnique
  /\ [][(op' \in {"insertBranch", "createBranches"} /\ result' \in {"ok", "ConflictError"})
        => /\ \A b \in DOMAIN branches :
                b \in DOMAIN branches' /\ branches'[b] = branches[b]
           /\ (result' = "ConflictError" => branches' = branches)
           /\ (op' = "insertBranch" /\ result' = "ok"
                 => DOMAIN branches' # DOMAIN branches)]_vars

\* Every assignment's role_id refers to an existing role.
AssignmentRolesExist ==
  \A ea \in assignments : ea.role_id \in DOMAIN roles

\* C23: deleting a role fails while an assignment, active or ended,
\* references it, and leaves the role and all assignments unchanged; so
\* every assignment's role_id refers to an existing role.
C23_RoleDeleteRestricted ==
  /\ []AssignmentRolesExist
  /\ [][op' = "deleteRole" =>
          /\ assignments' = assignments
          /\ \A r \in DOMAIN roles :
               (\E ea \in assignments : ea.role_id = r)
                 => (r \in DOMAIN roles' /\ roles'[r] = roles[r])
          /\ (result' # "ok" => roles' = roles)]_vars

\* A role delete has failed on a role that only an ended assignment names.
C23_Witness ==
  /\ op = "deleteRole"
  /\ result = "ForeignKeyViolation"
  /\ assignments # {}
  /\ \A ea \in assignments :
       ~ ea.is_active /\ ea.id \in revoked /\ ea.role_id \in DOMAIN roles

\* Every branch, membership and assignment refers to chapters and branches
\* that exist.
HierarchyReferencesExist ==
  /\ \A b \in DOMAIN branches : branches[b].chapter_id \in chapters
  /\ \A m \in memberships : m.branch_id \in DOMAIN branches
  /\ \A ea \in assignments :
       /\ ea.chapter_id \in chapters \cup {NULL}
       /\ ea.branch_id \in DOMAIN branches \cup {NULL}

\* C24: a branch never outlives its chapter. Every branch, membership and
\* assignment refers only to existing chapters and branches, and a chapter
\* delete the policies let through is not blocked by assignments: it
\* removes the chapter, all of its branches and their memberships.
C24_ChapterDeleteCascades ==
  /\ []HierarchyReferencesExist
  /\ [][(op' = "deleteChapter" /\ result' # "NoRows") =>
          /\ result' = "ok"
          /\ chapters' # chapters
          /\ \A b \in DOMAIN branches :
               branches[b].chapter_id \notin chapters' => b \notin DOMAIN branches'
          /\ \A m \in memberships :
               m.branch_id \notin DOMAIN branches' => m \notin memberships']_vars

\* C25: no escalation to super-authority. While user 1, the only one who
\* acts after the owner's appointment, is not treated as Chairman, no
\* operation of theirs makes an authorization check treat them as Chairman
\* or allows them, by can_assign_role or by the policies of
\* executive_assignments, an assignment they were not allowed before.
C25_NoEscalation ==
  [][(op' # "bootstrap" /\ ~ ChapterChairman(1)) =>
       /\ ~ ChapterChairman(1)'
       /\ \A r \in DOMAIN roles, b \in BranchIds \cup {NULL} :
            can_assign_role(1, 2, r, 1, b)' => can_assign_role(1, 2, r, 1, b)
       /\ \A row \in TargetRows :
            AssignmentsWritePolicy(1, row)' => AssignmentsWritePolicy(1, row)]_vars

\* The three rules of the specification for one assignment of the assigner
\* and a target role and branch.
MatchesRule(ea, r, b) ==
  \/ roles[ea.role_id].name = <<"Chairman">>
  \/ (roles[ea.role_id].name = <<"Secretary">> /\ LikeCommittee(roles[r].name))
  \/ /\ roles[ea.role_id].name = <<"Branch", "Chairman">>
     /\ roles[r].scope_type \in {"branch", "both"}
     /\ ea.branch_id # NULL
     /\ ea.branch_id = b

\* C26: can_assign_role is true exactly when at least one active assignment
\* of the assigner matches one of the three rules; the order in which the
\* loop scans the assignments does not change the result, the result does
\* not depend on target_user_id, and adding assignments never turns an
\* allow into a deny.
C26_Monotone ==
  /\ [](\A a \in Users, r \in DOMAIN roles, b \in BranchIds \cup {NULL} :
          /\ can_assign_role(a, 1, r, 1, b)
               = (\E ea \in assignments :
                    ea.user_id = a /\ ea.is_active /\ MatchesRule(ea, r, b))
          /\ \A seq \in Orders(AssignerRoles(a)) :
               ScanAssignerRoles(seq, Cardinality(AssignerRoles(a)), 1, r, b)
                 = can_assign_role(a, 1, r, 1, b)
          /\ \A u \in Users, c \in ChapterIds \cup {NULL} :
               can_assign_role(a, u, r, c, b) = can_assign_role(a, 1, r, 1, b))
  /\ [][(assignments' # assignments /\ assignments \subseteq assignments') =>
          \A a \in Users, r \in DOMAIN roles, b \in BranchIds \cup {NULL} :
            can_assign_role(a, 1, r, 1, b) => can_assign_role(a, 1, r, 1, b)']_vars

\* An assigner holds two active assignments, the one with the larger id
\* matching a rule for some target and the other one not.
C26_Witness ==
  \E a \in Users, r \in DOMAIN roles, b \in BranchIds \cup {NULL} :
    \E ea, other \in AssignerRoles(a) :
      /\ other.id < ea.id
      /\ AssignRule(ea, r, b)
      /\ ~ AssignRule(other, r, b)
      /\ can_assign_role(a, 1, r, 1, b)

\* C27: validate_role_assignment is true exactly when the role exists and
\* the scope given satisfies the rule of the role's scope_type; it depends
\* on nothing else, neither on the role's category nor on the assignments
\* the user holds.
C27_ValidateExact ==
  \A u \in Users, r \in DOMAIN SeedRoles \cup {Cardinality(DOMAIN SeedRoles) + 1},
     c \in ChapterIds \cup {NULL}, b \in BranchIds \cup {NULL} :
    validate_role_assignment(u, r, c, b)
      = (r \in DOMAIN roles
         /\ ScopeConsistent([role_id |-> r, chapter_id |-> c, branch_id |-> b]))

\* C28: after any creations and deletions of users, concurrent creations
\* included, every auth user has exactly one profile, every profile belongs
\* to an auth user, no two profiles share a membership number, and the
\* number generate_membership_number would hand out next is not in use.
C28_OneProfilePerUser ==
  /\ \A u \in authUsers : Cardinality({p \in profiles : p.id = u}) = 1
  /\ \A p \in profiles : p.id \in authUsers
  /\ \A p, q \in profiles : p.membership_number = q.membership_number => p = q
  /\ \A p \in profiles : p.membership_number # generate_membership_number

\* C29: whenever a user is set in the auth context, an access token is in
\* local storage, under every interleaving of checkAuthStatus, login,
\* refreshToken and logout.
C29_UserImpliesToken ==
  isAuthenticated(user) => access_token # NULL

\* The session is cleared: no tokens stored and nobody signed in.
SessionCleared ==
  access_token = NULL /\ refresh_token = NULL /\ user = NULL

\* C30: ending a session clears it. When logout completes, and when a
\* refreshToken that failed (no stored refresh token, or the request was
\* rejected) completes, both tokens are removed and user is null; once
\* checkAuthStatus has ended, isLoading is false.
C30_SessionEndClears ==
  /\ [](checkPc = "done" => ~ isLoading)
  /\ [][/\ (logoutPc = "await" /\ logoutPc' = "done") => SessionCleared'
        /\ (refreshPc = "logout" /\ refreshPc' = "failed") => SessionCleared'
        /\ (refreshPc' = "failed" => refreshPc \in {"logout", "failed"})
        /\ (refreshPc = "await" /\ refreshPc' # "await" /\ refreshPc' # "done")
             => refreshPc' = "logout"
        /\ (refreshPc \in {"idle", "done", "failed"} /\ refreshPc' \notin {refreshPc, "await"})
             => (refresh_token = NULL /\ refreshPc' = "logout")]_vars

\* A logout and a failed refreshToken have completed after checkAuthStatus
\* ended, somebody is in the middle of signing in, and the session is cleared.
C30_Witness ==
  /\ logoutPc = "done"
  /\ refreshPc = "failed"
  /\ checkPc = "done"
  /\ ~ isLoading
  /\ SessionCleared

====
